---- MODULE Spec2Model ----
(***************************************************************************)
(* Ojoya appraisal pipeline: the three-stage orchestrator with early exit, *)
(* the appraisal record and its reconstruction for the history page        *)
(* (toAnalyzeResponse), and the SSE streaming client with its React hook   *)
(* (createAnalysisStream / useStreamingAnalysis).                          *)
(***************************************************************************)
EXTENDS Integers, Sequences, FiniteSets, TLC

(***************************************************************************)
(* Optional values.  A TypeScript value of type `T | null | undefined` is  *)
(* the empty set when absent and a singleton when present.                 *)
(***************************************************************************)
None == {}

Some(x) == {x}

The(m) == CHOOSE x \in m : TRUE

\* JavaScript truthiness of an object reference (`doc.price ? ... : ...`).
Truthy(m) == m # None

\* `a ?? b`
Coalesce(a, b) == IF a = None THEN b ELSE a

(***************************************************************************)
(* API types (types/api.ts).                                               *)
(***************************************************************************)
Classification == {"mass_product", "unique_item", "unknown", "prohibited"}

TerminationPoint ==
    {"vision_prohibited", "vision_unknown", "search_unique",
     "price_complete", "price_error"}

NodeType == <<"vision", "search", "price">>

ConfidenceLevel == {"high", "low"}

ItemNames == {None, Some("switch")}

VisionResult ==
    [category_type : {"processable", "unknown", "prohibited"},
     item_name : ItemNames,
     visual_features : {<<"grip">>},
     confidence : ConfidenceLevel,
     reasoning : {"rv"},
     retry_advice : {None, Some("retake")}]

SearchResult ==
    [classification : {"mass_product", "unique_item"},
     confidence : ConfidenceLevel,
     reasoning : {"rs"},
     identified_product : {None, Some("switch-x")}]

PriceResult ==
    [status : {"complete", "error"},
     min_price : {0, 12000},
     max_price : {0, 18000},
     currency : {"JPY"},
     confidence : ConfidenceLevel,
     display_message : {"msg"},
     price_factors : {None, Some(<<"boxed">>)}]

AppraisalDocument ==
    [id : {"a1"},
     vision : {None} \cup {Some(v) : v \in VisionResult},
     search : {None} \cup {Some(s) : s \in SearchResult},
     price : {None} \cup {Some(p) : p \in PriceResult},
     termination_point : TerminationPoint]

(***************************************************************************)
(* History reconstruction (HistoryPage.tsx).                               *)
(***************************************************************************)
\* `m?.f` for a field that is always present on the object.
Chain(m, f) == IF m = None THEN None ELSE Some(The(m)[f])

\* `m?.f` for a field that is itself optional or nullable.
ChainOpt(m, f) == IF m = None THEN None ELSE The(m)[f]

\* `m.f`: reading a property of undefined throws a TypeError.
Member(m, f) ==
    IF m = None THEN [thrown |-> TRUE]
    ELSE [thrown |-> FALSE, value |-> The(m)[f]]

TypeError == [thrown |-> TRUE]

\* Variants of classification with the termination points exchanged, and
\* with the unique-item test never matching.
classification_swapped(doc) ==
    IF doc.termination_point = "vision_unknown" THEN "prohibited"
    ELSE IF doc.termination_point = "vision_prohibited" THEN "unknown"
    ELSE IF Chain(doc.search, "classification") = Some("unique_item")
    THEN "unique_item"
    ELSE "mass_product"

classification_nounique(doc) ==
    IF doc.termination_point = "vision_prohibited" THEN "prohibited"
    ELSE IF doc.termination_point = "vision_unknown" THEN "unknown"
    ELSE IF Chain(doc.search, "classification") = Some("unique")
    THEN "unique_item"
    ELSE "mass_product"

classification_fallthrough(doc) ==
    IF doc.termination_point = "vision_prohibited" THEN "prohibited"
    ELSE IF doc.termination_point = "vision_unknown" THEN "unknown"
    ELSE IF Chain(doc.search, "classification") = Some("unique_item")
    THEN "unique_item"
    ELSE "unknown"

\* const classification = ...
classification(doc) ==
    IF doc.termination_point = "vision_prohibited" THEN "prohibited"
    ELSE IF doc.termination_point = "vision_unknown" THEN "unknown"
    ELSE IF Chain(doc.search, "classification") = Some("unique_item")
    THEN "unique_item"
    ELSE "mass_product"

\* The property reads made while building `price`.
priceReads(doc) ==
    IF Truthy(doc.price)
    THEN <<Member(doc.price, "min_price"),
           Member(doc.price, "max_price"),
           Member(doc.price, "currency"),
           Member(doc.price, "display_message")>>
    ELSE <<>>

\* doc.price?.confidence ?? doc.search?.confidence
chainedLevel(doc) ==
    Coalesce(Chain(doc.price, "confidence"), Chain(doc.search, "confidence"))

\* Variant of confidenceReads without the `doc.vision ?` guard.
confidenceReads_unguarded(doc) ==
    <<IF chainedLevel(doc) = None
      THEN Member(doc.vision, "confidence")
      ELSE [thrown |-> FALSE, value |-> The(chainedLevel(doc))],
      IF Chain(doc.search, "reasoning") = None
      THEN Member(doc.vision, "reasoning")
      ELSE [thrown |-> FALSE, value |-> The(Chain(doc.search, "reasoning"))]>>

\* The property reads made while building `confidence`: level, reasoning.
confidenceReads(doc) ==
    IF Truthy(doc.vision)
    THEN <<IF chainedLevel(doc) = None
           THEN Member(doc.vision, "confidence")
           ELSE [thrown |-> FALSE, value |-> The(chainedLevel(doc))],
           IF Chain(doc.search, "reasoning") = None
           THEN Member(doc.vision, "reasoning")
           ELSE [thrown |-> FALSE,
                 value |-> The(Chain(doc.search, "reasoning"))]>>
    ELSE <<>>

toAnalyzeResponse(doc) ==
    LET price == priceReads(doc)
        confidence == confidenceReads(doc)
        reads == price \o confidence
    IN  IF \E i \in DOMAIN reads : reads[i].thrown
        THEN TypeError
        ELSE [thrown |-> FALSE,
              appraisal_id |-> doc.id,
              item_name |-> ChainOpt(doc.vision, "item_name"),
              identified_product |-> ChainOpt(doc.search, "identified_product"),
              visual_features |->
                  IF Chain(doc.vision, "visual_features") = None THEN <<>>
                  ELSE The(Chain(doc.vision, "visual_features")),
              classification |-> classification(doc),
              price |->
                  IF price = <<>> THEN None
                  ELSE Some([min_price |-> price[1].value,
                             max_price |-> price[2].value,
                             currency |-> price[3].value,
                             display_message |-> price[4].value]),
              confidence |->
                  IF confidence = <<>> THEN None
                  ELSE Some([level |-> confidence[1].value,
                             reasoning |-> confidence[2].value]),
              price_factors |-> ChainOpt(doc.price, "price_factors"),
              message |-> None,
              recommendation |-> None,
              retry_advice |-> ChainOpt(doc.vision, "retry_advice")]

(***************************************************************************)
(* Stage contract and routing rules of the pipeline.                       *)
(***************************************************************************)
Continue(stage, payload) ==
    [stage |-> stage, decision |-> "continue",
     terminationReason |-> None, payload |-> payload]

Terminate(stage, reason, payload) ==
    [stage |-> stage, decision |-> "terminate",
     terminationReason |-> Some(reason), payload |-> payload]

\* Payload recorded when the vision backend call itself fails.
VisionFailurePayload ==
    [category_type |-> "unknown", item_name |-> None,
     visual_features |-> <<"grip">>, confidence |-> "low",
     reasoning |-> "rv", retry_advice |-> Some("retake")]

VisionStage(reply) ==
    IF reply.category_type = "prohibited"
    THEN Terminate("vision", "prohibited", reply)
    ELSE IF reply.category_type = "unknown"
    THEN Terminate("vision", "unidentifiable", reply)
    ELSE Continue("vision", reply)

SearchStage(reply) ==
    IF reply.classification = "unique_item"
    THEN Terminate("search", "unique_item", reply)
    ELSE Continue("search", reply)

PriceStage(reply) ==
    IF reply.status = "complete"
    THEN Terminate("price", "priced", reply)
    ELSE Terminate("price", "price_failed", reply)

\* The fixed priority rule deriving Classification from the StageResult
\* sequence.
Classify(rs) ==
    LET reason == rs[Len(rs)].terminationReason
    IN  IF reason = Some("prohibited") THEN "prohibited"
        ELSE IF reason = Some("unidentifiable") THEN "unknown"
        ELSE IF reason = Some("unique_item") THEN "unique_item"
        ELSE IF \E i \in DOMAIN rs :
                    rs[i].stage = "price" /\ rs[i].payload.status = "complete"
        THEN "mass_product"
        ELSE "unknown"

TerminationPointOf(rs) ==
    LET reason == rs[Len(rs)].terminationReason
    IN  IF reason = Some("prohibited") THEN "vision_prohibited"
        ELSE IF reason = Some("unidentifiable") THEN "vision_unknown"
        ELSE IF reason = Some("unique_item") THEN "search_unique"
        ELSE IF reason = Some("priced") THEN "price_complete"
        ELSE "price_error"

PayloadOf(rs, stage) ==
    IF \E i \in DOMAIN rs : rs[i].stage = stage
    THEN Some(rs[CHOOSE i \in DOMAIN rs : rs[i].stage = stage].payload)
    ELSE None

\* The durable record of a finished run: the per-stage payloads and the
\* terminal reason code, without the derived Classification.
toRecord(o) ==
    [id |-> "a1",
     vision |-> PayloadOf(o.results, "vision"),
     search |-> PayloadOf(o.results, "search"),
     price |-> PayloadOf(o.results, "price"),
     termination_point |-> o.termination_point]

(***************************************************************************)
(* SSE wire format (lib/streaming.ts).  Text is a sequence of symbols:     *)
(* "d" is the prefix `data: `, "nl" a line feed, "sp" other white space;   *)
(* T1, T2, N, C, E are the JSON texts of a thinking, a progress, a         *)
(* node_complete, a complete and an error event; X is text that is not     *)
(* JSON and D is `[DONE]`.                                                 *)
(***************************************************************************)
JsonEvents == {"T1", "T2", "N", "C", "E"}

EventOf(sym) ==
    IF sym = "T1" THEN [type |-> "thinking", message |-> "m1"]
    ELSE IF sym = "T2" THEN [type |-> "progress", message |-> "m2"]
    ELSE IF sym = "N" THEN [type |-> "node_complete", message |-> "mn"]
    ELSE IF sym = "C" THEN [type |-> "complete", message |-> "result"]
    ELSE [type |-> "error", message |-> "failed"]

RECURSIVE TrimStart(_)
TrimStart(s) ==
    IF s # <<>> /\ Head(s) = "sp" THEN TrimStart(Tail(s)) ELSE s

RECURSIVE TrimEnd(_)
TrimEnd(s) ==
    IF s # <<>> /\ s[Len(s)] = "sp"
    THEN TrimEnd(SubSeq(s, 1, Len(s) - 1))
    ELSE s

\* String.prototype.trim
Trim(s) == TrimEnd(TrimStart(s))

\* String.prototype.split('\n'): n separators give n + 1 segments.
RECURSIVE Split(_)
Split(s) ==
    IF \A i \in DOMAIN s : s[i] # "nl"
    THEN <<s>>
    ELSE LET k == CHOOSE i \in DOMAIN s :
                      s[i] = "nl" /\ \A j \in 1..(i - 1) : s[j] # "nl"
         IN  <<SubSeq(s, 1, k - 1)>> \o Split(SubSeq(s, k + 1, Len(s)))

\* JSON.parse of the payload: white space around one JSON text is allowed,
\* anything else is a SyntaxError (None).
JsonParse(jsonStr) ==
    LET t == Trim(jsonStr)
    IN  IF Len(t) = 1 /\ t[1] \in JsonEvents THEN Some(EventOf(t[1]))
        ELSE None

\* Variant of parseSSELine that turns a payload it cannot parse into an
\* error event.
parseSSELine_report(line) ==
    IF ~(line # <<>> /\ Head(line) = "d") THEN None
    ELSE LET jsonStr == Tail(line)
         IN  IF jsonStr = <<>> \/ jsonStr = <<"D">> THEN None
             ELSE IF JsonParse(jsonStr) = None THEN Some(EventOf("E"))
             ELSE JsonParse(jsonStr)

parseSSELine(line) ==
    IF ~(line # <<>> /\ Head(line) = "d") THEN None
    ELSE LET jsonStr == Tail(line)
         IN  IF jsonStr = <<>> \/ jsonStr = <<"D">> THEN None
             ELSE JsonParse(jsonStr)

\* The callback an event is dispatched to (none for node_complete).
Dispatch(event) ==
    IF event.type = "complete"
    THEN <<[cb |-> "onComplete", arg |-> event]>>
    ELSE IF event.type = "error"
    THEN <<[cb |-> "onError", arg |-> event]>>
    ELSE IF event.type # "node_complete"
    THEN <<[cb |-> "onThinking", arg |-> event]>>
    ELSE <<>>

\* One line of the read loop: trim, skip empty, parse, dispatch.
ProcessLine(line) ==
    LET trimmedLine == Trim(line)
    IN  IF trimmedLine = <<>> THEN <<>>
        ELSE LET event == parseSSELine(trimmedLine)
             IN  IF event = None THEN <<>> ELSE Dispatch(The(event))

RECURSIVE ProcessLines(_)
ProcessLines(lines) ==
    IF lines = <<>> THEN <<>>
    ELSE ProcessLine(Head(lines)) \o ProcessLines(Tail(lines))

\* Variant of ProcessChunk that splits the chunk alone and drops what the
\* buffer held.
ProcessChunk_nobuffer(buffer, chunk) ==
    LET lines == Split(chunk)
    IN  [buffer |-> lines[Len(lines)],
         cbs |-> ProcessLines(SubSeq(lines, 1, Len(lines) - 1))]

\* One iteration of the read loop on a received chunk: the new buffer and
\* the callbacks made, in order.
ProcessChunk(buffer, chunk) ==
    LET lines == Split(buffer \o chunk)
    IN  [buffer |-> lines[Len(lines)],
         cbs |-> ProcessLines(SubSeq(lines, 1, Len(lines) - 1))]

\* After the loop: the remaining buffer is processed as a last line.
ProcessRemaining(buffer) == ProcessLine(buffer)

\* The catch block of fetchStream: an AbortError is swallowed, any other
\* error is reported.
CatchBlock(errorName) ==
    IF errorName = "AbortError" THEN <<>>
    ELSE <<[cb |-> "onError",
            arg |-> [type |-> "exception", message |-> errorName]]>>

(***************************************************************************)
(* useStreamingAnalysis: the effect of the callbacks on the hook state.    *)
(***************************************************************************)
\* Variant of ApplyCallback whose onThinking puts the event first.
ApplyCallback_prepend(h, c) ==
    IF c.cb = "onThinking"
    THEN [h EXCEPT !.thinkingEvents = <<c.arg>> \o @]
    ELSE IF c.cb = "onComplete"
    THEN [h EXCEPT !.result = Some(c.arg.message), !.isLoading = FALSE,
                   !.cancelRef = 0]
    ELSE [h EXCEPT !.error = Some(c.arg.message), !.isLoading = FALSE,
                   !.cancelRef = 0]

ApplyCallback(h, c) ==
    IF c.cb = "onThinking"
    THEN [h EXCEPT !.thinkingEvents = Append(@, c.arg)]
    ELSE IF c.cb = "onComplete"
    THEN [h EXCEPT !.result = Some(c.arg.message), !.isLoading = FALSE,
                   !.cancelRef = 0]
    ELSE [h EXCEPT !.error = Some(c.arg.message), !.isLoading = FALSE,
                   !.cancelRef = 0]

RECURSIVE ApplyCallbacks(_, _)
ApplyCallbacks(h, cbs) ==
    IF cbs = <<>> THEN h
    ELSE ApplyCallbacks(ApplyCallback(h, Head(cbs)), Tail(cbs))

(***************************************************************************)
(* State.                                                                  *)
(***************************************************************************)
VARIABLES
    orch_pc,            \* position of the orchestrator's run
    stageIdx,           \* index into NodeType of the current stage
    pending,            \* StageResult of the stage call in flight
    progressSent,       \* progress events emitted by the run     
    results,            \* the StageResult sequence of the run
    events,             \* ProgressEvents emitted so far, in emission order
    calls,              \* external stage calls made so far
    outcome,            \* PipelineOutcome carried by the complete event
    chan,               \* streaming channel: events emitted, not yet delivered
    delivered,          \* events the consumer has received, in order
    chanOpen,           \* the request's channel is open
    disconnected,       \* the consumer has disconnected
    atDisconnect,       \* history: calls and results when it disconnected
    store,              \* the persisted AppraisalDocument
    selectedAppraisal,  \* HistoryPage: the record opened in the detail view
    display,            \* HistoryPage: toAnalyzeResponse(selectedAppraisal)
    hook,               \* useStreamingAnalysis state and cancelRef
    streams,            \* per createAnalysisStream call: fetchStream's state
    nStreams,           \* createAnalysisStream calls made so far
    linesWritten,       \* lines the server has written, over all streams
    currentRun,         \* history: stream of the latest submitImage, 0 after reset
    arrived,            \* history: thinking events received since the last reset
    picker,             \* ImagePicker state: preview, error
    readers,            \* FileReaders reading a file
    selected,           \* history: arguments of onImageSelect, in call order
    lastFile,           \* history: the file of the latest processFile call
    processed,          \* history: processFile calls made so far
    historyHook,        \* useAppraisalHistory state
    rendered,           \* the state and user its callbacks were created with
    auth,               \* useAuth: user, loading
    fetches,            \* getAppraisalHistory requests in flight
    nCalls,             \* refresh and loadMore calls made so far
    serverTotal,        \* records the store holds for the user
    limit,              \* useAppraisalHistory(limit)
    loads,              \* history: loadMore calls completed since the initial fetch
    initialDone,        \* history: the initial fetch has delivered
    sequential,         \* history: only loadMore since, one at a time
    api,                \* apiRequest: position, options, headers, requests sent
    apiCalls,           \* apiRequest calls made so far
    configured,         \* isFirebaseConfigured()
    fbUser,             \* Firebase: auth.currentUser
    signingIn,          \* useAutoAuth: signingIn
    autoError,          \* useAutoAuth: error
    signIns,            \* signInAsAnonymous() calls in flight
    autoDeps            \* useAutoAuth: dependencies the effect last ran with

chanVars == <<chan, delivered, chanOpen, disconnected, atDisconnect>>

pipeVars ==
    <<orch_pc, stageIdx, pending, progressSent, results, events, calls,
      outcome, chanVars>>

histVars == <<store, selectedAppraisal, display>>

streamVars == <<hook, streams, nStreams, linesWritten, currentRun, arrived>>

pickerVars == <<picker, readers, selected, lastFile, processed>>

pagingVars ==
    <<historyHook, rendered, auth, fetches, nCalls, serverTotal, limit, loads,
      initialDone, sequential>>

apiVars == <<api, apiCalls>>

autoVars == <<configured, fbUser, signingIn, autoError, signIns, autoDeps>>

auxVars == <<apiVars, autoVars>>

uiVars == <<pickerVars, pagingVars, auxVars>>

vars == <<pipeVars, histVars, streamVars, uiVars>>

\* Sub-stage progress events forwarded per run.
MaxProgress == 1

\* Events the channel holds before the producer is suspended.
ChanCap == 1

Event(kind, stage) == [kind |-> kind, stage |-> stage]

(***************************************************************************)
(* Pipeline orchestrator.                                                  *)
(***************************************************************************)
InitPipeline ==
    /\ orch_pc = "idle"
    /\ stageIdx = 1
    /\ pending = None
    /\ progressSent = 0
    /\ results = <<>>
    /\ events = <<>>
    /\ calls = 0
    /\ outcome = None
    /\ chan = <<>>
    /\ delivered = <<>>
    /\ chanOpen = FALSE
    /\ disconnected = FALSE
    /\ atDisconnect = None

InitHistory ==
    /\ store = None
    /\ selectedAppraisal = None
    /\ display = None

\* Calls of submitImage (streams created).
MaxStreams == 2

\* Lines written by the server, over all streams.
MaxLines == 2

\* The lines a server response is made of; the last one is an event that
\* is not followed by a line feed.
Lines ==
    {<<"d", "T1", "nl">>, <<"d", "T2", "nl">>, <<"d", "N", "nl">>,
     <<"d", "C", "nl">>, <<"d", "E", "nl">>, <<"d", "X", "nl">>,
     <<"nl">>, <<"d", "C">>}

StreamIds == 1..MaxStreams

NoStream ==
    [pc |-> "none", aborted |-> FALSE, closed |-> FALSE, inflight |-> <<>>,
     buffer |-> <<>>, calls |-> <<>>, cancelAt |-> -1, received |-> <<>>,
     ended |-> FALSE]

InitStream ==
    /\ hook = [isLoading |-> FALSE, thinkingEvents |-> <<>>, result |-> None,
               error |-> None, cancelRef |-> 0]
    /\ streams = [s \in StreamIds |-> NoStream]
    /\ nStreams = 0
    /\ linesWritten = 0
    /\ currentRun = 0
    /\ arrived = <<>>

\* const VALID_TYPES = [...]
VALID_TYPES == {"image/jpeg", "image/png", "image/webp"}

\* const MAX_SIZE = 10 * 1024 * 1024
MAX_SIZE == 10485760

\* Files the user can pick or drop: the type the browser reports (empty
\* when it knows none) and the size in bytes.
FileTypes == VALID_TYPES \cup {"image/gif", ""}

FileSizes == {1, MAX_SIZE, MAX_SIZE + 1}

Files == [type : FileTypes, size : FileSizes]

\* useState(null) for preview and error.
InitPicker ==
    /\ picker = [preview |-> None, error |-> None]
    /\ readers = {}
    /\ selected = <<>>
    /\ lastFile = None
    /\ processed = 0

\* Records of the store, refresh and loadMore calls, page sizes.
MaxRecords == 3

MaxLimit == 2

MaxCalls == 4

\* useState([]), useState(0), useState(true), useState(null), useState(0)
InitHistoryHook ==
    [appraisals |-> <<>>, total |-> 0, loading |-> TRUE, error |-> None,
     offset |-> 0]

InitPaging(T, l) ==
    /\ historyHook = InitHistoryHook
    /\ auth = [user |-> None, loading |-> TRUE]
    /\ rendered = [state |-> InitHistoryHook, user |-> None]
    /\ fetches = {}
    /\ nCalls = 0
    /\ serverTotal = T
    /\ limit = l
    /\ loads = 0
    /\ initialDone = FALSE
    /\ sequential = FALSE

\* apiRequest calls.
MaxApiCalls == 2

NoRequest ==
    [pc |-> "idle", requireAuth |-> FALSE, body |-> None,
     authorization |-> None, sent |-> <<>>, first |-> 0, status |-> 0, refreshed |-> None,
     outcome |-> "none"]

InitApi == api = NoRequest /\ apiCalls = 0

\* useAutoAuth after its first render: useState(null), useState(false);
\* the effect has run once, with loading true.
AutoDeps == [loading |-> auth.loading, user |-> auth.user,
             signingIn |-> signingIn]

InitAuto(c, u) ==
    /\ configured = c
    /\ fbUser = u
    /\ signingIn = FALSE
    /\ autoError = None
    /\ signIns = 0
    /\ autoDeps = [loading |-> TRUE, user |-> None, signingIn |-> FALSE]

InitAux == InitApi /\ InitAuto(TRUE, None)

InitUi == InitPicker /\ InitPaging(MaxRecords, MaxLimit) /\ InitAux

Init == InitPipeline /\ InitHistory /\ InitStream /\ InitUi

\* States of a run that has been accepted and has not ended.
InProgress == {"stage_start", "invoke", "in_flight", "finish", "expired"}

\* Variant of Emit that overwrites the channel when it is full.
Emit_dropping(e) ==
    /\ chan' = IF Len(chan) < ChanCap THEN Append(chan, e) ELSE <<e>>
    /\ events' = Append(events, e)

\* The producer writes one event to the channel; it is suspended while the
\* channel is full.
Emit(e) ==
    /\ Len(chan) < ChanCap
    /\ chan' = Append(chan, e)
    /\ events' = Append(events, e)

\* A request without a usable image is rejected before any stage runs and
\* before a channel is opened.
Accept ==
    /\ orch_pc = "idle"
    /\ \E image \in {None, Some("img")} :
          /\ orch_pc' = IF image = None THEN "rejected" ELSE "stage_start"
          /\ chanOpen' = (image # None)
    /\ UNCHANGED <<stageIdx, pending, progressSent, results, events, calls,
                   outcome, chan, delivered, disconnected, atDisconnect,
                   histVars, streamVars, uiVars>>

\* Variant of EmitStageStart that goes on without emitting the event.
EmitStageStart_noevent ==
    /\ orch_pc = "stage_start"
    /\ ~disconnected
    /\ orch_pc' = "invoke"
    /\ UNCHANGED <<stageIdx, pending, progressSent, results, events, calls,
                   outcome, chanVars, histVars, streamVars, uiVars>>

EmitStageStart ==
    /\ orch_pc = "stage_start"
    /\ ~disconnected
    /\ Emit(Event("stage_start", NodeType[stageIdx]))
    /\ orch_pc' = "invoke"
    /\ UNCHANGED <<stageIdx, pending, progressSent, results, calls, outcome,
                   delivered, chanOpen, disconnected, atDisconnect,
                   histVars, streamVars, uiVars>>

\* execute(context): the stage issues its external call; the reply decides
\* the StageResult it will return.
InvokeStage ==
    /\ orch_pc = "invoke"
    /\ ~disconnected
    /\ calls' = calls + 1
    /\ \/ /\ NodeType[stageIdx] = "vision"
          /\ \/ \E reply \in VisionResult :
                    pending' = Some(VisionStage(reply))
             \/ pending' = Some(Terminate("vision", "unidentifiable",
                                          VisionFailurePayload))
       \/ /\ NodeType[stageIdx] = "search"
          /\ \E reply \in SearchResult : pending' = Some(SearchStage(reply))
       \/ /\ NodeType[stageIdx] = "price"
          /\ \E reply \in PriceResult : pending' = Some(PriceStage(reply))
    /\ orch_pc' = "in_flight"
    /\ UNCHANGED <<stageIdx, progressSent, results, events, outcome, chanVars,
                   histVars, streamVars, uiVars>>

EmitProgress ==
    /\ orch_pc = "in_flight"
    /\ ~disconnected
    /\ progressSent < MaxProgress
    /\ \E kind \in {"progress", "thinking"} :
          Emit(Event(kind, NodeType[stageIdx]))
    /\ progressSent' = progressSent + 1
    /\ UNCHANGED <<orch_pc, stageIdx, pending, results, calls, outcome,
                   delivered, chanOpen, disconnected, atDisconnect,
                   histVars, streamVars, uiVars>>

\* Variant of Proceeds that ignores the stage's decision.
Proceeds_always(r, idx) == idx < Len(NodeType)

\* Routing: the run goes on iff the stage decided `continue` and a later
\* stage exists.
Proceeds(r, idx) == r.decision = "continue" /\ idx < Len(NodeType)

\* Variant of NextStage that goes from vision straight to price.
NextStage_skip(idx) == IF idx = 1 THEN 3 ELSE idx + 1

\* The stage that follows in the fixed order.
NextStage(idx) == idx + 1

\* The stage returns: stage_complete is emitted, the StageResult is
\* appended and its decision is applied.
StageReturn ==
    /\ orch_pc = "in_flight"
    /\ ~disconnected
    /\ LET r == The(pending)
       IN  /\ Emit(Event("stage_complete", r.stage))
           /\ results' = Append(results, r)
           /\ IF Proceeds(r, stageIdx)
              THEN /\ orch_pc' = "stage_start"
                   /\ stageIdx' = NextStage(stageIdx)
              ELSE /\ orch_pc' = "finish"
                   /\ UNCHANGED stageIdx
    /\ pending' = None
    /\ UNCHANGED <<progressSent, calls, outcome, delivered, chanOpen,
                   disconnected, atDisconnect, histVars, streamVars, uiVars>>

\* Variant of Finish that does not look at the cancellation signal.
Finish_uncancelled ==
    /\ orch_pc = "finish"
    /\ LET o == [results |-> results,
                 classification |-> Classify(results),
                 termination_point |-> TerminationPointOf(results)]
       IN  /\ outcome' = Some(o)
           /\ store' = Some(toRecord(o))
    /\ Emit(Event("complete", "none"))
    /\ chanOpen' = FALSE
    /\ orch_pc' = "closed"
    /\ UNCHANGED <<stageIdx, pending, progressSent, results, calls,
                   delivered, disconnected, atDisconnect,
                   selectedAppraisal, display, streamVars, uiVars>>

\* After the loop: derive the Classification, emit the final complete
\* event, close the stream and persist the record.
Finish ==
    /\ orch_pc = "finish"
    /\ ~disconnected
    /\ LET o == [results |-> results,
                 classification |-> Classify(results),
                 termination_point |-> TerminationPointOf(results)]
       IN  /\ outcome' = Some(o)
           /\ store' = Some(toRecord(o))
    /\ Emit(Event("complete", "none"))
    /\ chanOpen' = FALSE
    /\ orch_pc' = "closed"
    /\ UNCHANGED <<stageIdx, pending, progressSent, results, calls,
                   delivered, disconnected, atDisconnect,
                   selectedAppraisal, display, streamVars, uiVars>>

\* The per-run wall-clock cap expires before the terminal decision: an
\* in-flight stage call is given up.
TimeoutExpire ==
    /\ orch_pc \in {"stage_start", "invoke", "in_flight"}
    /\ ~disconnected
    /\ orch_pc' = "expired"
    /\ pending' = None
    /\ UNCHANGED <<stageIdx, progressSent, results, events, calls, outcome,
                   chanVars, histVars, streamVars, uiVars>>

\* Variants of EmitError: the channel is closed without the error event;
\* the error event is emitted and the channel stays open.
EmitError_silent ==
    /\ orch_pc = "expired"
    /\ ~disconnected
    /\ chanOpen' = FALSE
    /\ orch_pc' = "failed"
    /\ UNCHANGED <<stageIdx, pending, progressSent, results, events, calls,
                   outcome, chan, delivered, disconnected, atDisconnect,
                   histVars, streamVars, uiVars>>

EmitError_leaveopen ==
    /\ orch_pc = "expired"
    /\ ~disconnected
    /\ Emit(Event("error", "none"))
    /\ orch_pc' = "failed"
    /\ UNCHANGED <<stageIdx, pending, progressSent, results, calls, outcome,
                   delivered, chanOpen, disconnected, atDisconnect, histVars,
                   streamVars, uiVars>>

\* The expired run ends like a stage failure: error event, channel closed.
EmitError ==
    /\ orch_pc = "expired"
    /\ ~disconnected
    /\ Emit(Event("error", "none"))
    /\ chanOpen' = FALSE
    /\ orch_pc' = "failed"
    /\ UNCHANGED <<stageIdx, pending, progressSent, results, calls, outcome,
                   delivered, disconnected, atDisconnect, histVars,
                   streamVars, uiVars>>

(***************************************************************************)
(* Streaming channel and its consumer.                                     *)
(***************************************************************************)
\* The consumer takes the oldest event off the channel.
Deliver ==
    /\ chan # <<>>
    /\ ~disconnected
    /\ delivered' = Append(delivered, Head(chan))
    /\ chan' = Tail(chan)
    /\ UNCHANGED <<orch_pc, stageIdx, pending, progressSent, results, events,
                   calls, outcome, chanOpen, disconnected, atDisconnect,
                   histVars, streamVars, uiVars>>

\* The consumer disconnects while the run is in progress; the adapter
\* signals cancellation.
Disconnect ==
    /\ orch_pc \in InProgress
    /\ ~disconnected
    /\ disconnected' = TRUE
    /\ atDisconnect' = Some([calls |-> calls, results |-> results])
    /\ UNCHANGED <<orch_pc, stageIdx, pending, progressSent, results, events,
                   calls, outcome, chan, delivered, chanOpen, histVars,
                   streamVars, uiVars>>

\* The orchestrator honours the cancellation: the in-flight call is
\* released, its StageResult discarded, nothing is persisted.
CancelRun ==
    /\ orch_pc \in InProgress
    /\ disconnected
    /\ orch_pc' = "cancelled"
    /\ pending' = None
    /\ chan' = <<>>
    /\ chanOpen' = FALSE
    /\ UNCHANGED <<stageIdx, progressSent, results, events, calls, outcome,
                   delivered, disconnected, atDisconnect, histVars,
                   streamVars, uiVars>>

(***************************************************************************)
(* History page.                                                           *)
(***************************************************************************)
\* getPriceDisplay: the text of a list row.  "yen" stands for the formatted
\* minimum price, "ittenmono" for the unique-item text, "taishogai" for the
\* out-of-scope text and "satei_fuka" for the not-appraisable text.
getPriceDisplay(appraisal) ==
    IF Truthy(appraisal.price)
    THEN [text |-> "yen", amount |-> Chain(appraisal.price, "min_price")]
    ELSE IF Chain(appraisal.search, "classification") = Some("unique_item")
    THEN [text |-> "ittenmono", amount |-> None]
    ELSE IF Chain(appraisal.vision, "category_type") = Some("prohibited")
    THEN [text |-> "taishogai", amount |-> None]
    ELSE [text |-> "satei_fuka", amount |-> None]

\* getStatusIcon: the icon of a list row.
getStatusIcon(appraisal) ==
    IF Truthy(appraisal.price) THEN "gem"
    ELSE IF Chain(appraisal.search, "classification") = Some("unique_item")
    THEN "urn"
    ELSE IF Chain(appraisal.vision, "category_type") = Some("prohibited")
    THEN "no_entry"
    ELSE "question"

\* The Classification a list row stands for, read off its text and icon.
ListStatus(appraisal) ==
    LET text == getPriceDisplay(appraisal).text
        icon == getStatusIcon(appraisal)
    IN  IF text = "yen" /\ icon = "gem" THEN "mass_product"
        ELSE IF text = "ittenmono" /\ icon = "urn" THEN "unique_item"
        ELSE IF text = "taishogai" /\ icon = "no_entry" THEN "prohibited"
        ELSE IF text = "satei_fuka" /\ icon = "question" THEN "unknown"
        ELSE "mixed"

\* handleSelect followed by the render of the detail view.
HandleSelect ==
    /\ store # None
    /\ selectedAppraisal = None
    /\ selectedAppraisal' = store
    /\ display' = Some(toAnalyzeResponse(The(store)))
    /\ UNCHANGED <<pipeVars, store, streamVars, uiVars>>

\* handleBack: return to the list.
HandleBack ==
    /\ selectedAppraisal # None
    /\ selectedAppraisal' = None
    /\ display' = None
    /\ UNCHANGED <<pipeVars, store, streamVars, uiVars>>

Next ==
    \/ Accept
    \/ EmitStageStart
    \/ InvokeStage
    \/ EmitProgress
    \/ StageReturn
    \/ Finish
    \/ TimeoutExpire
    \/ EmitError
    \/ Deliver
    \/ Disconnect
    \/ CancelRun
    \/ HandleSelect
    \/ HandleBack

Spec == Init /\ [][Next]_vars

\* The orchestrator keeps running and a connected consumer keeps reading.
OrchestratorStep ==
    \/ EmitStageStart
    \/ InvokeStage
    \/ StageReturn
    \/ Finish
    \/ EmitError
    \/ CancelRun

FairSpec == Spec /\ WF_vars(OrchestratorStep) /\ WF_vars(Deliver)

(***************************************************************************)
(* Reference reading of a response text: the events it carries, scanned    *)
(* symbol by symbol.  A line counts once its line feed has been received,  *)
(* the last unterminated line once the stream has ended.                   *)
(***************************************************************************)
LineEvent(line) ==
    LET t == Trim(line)
    IN  IF t # <<>> /\ Head(t) = "d" /\ Tail(t) # <<"D">>
           /\ Len(Trim(Tail(t))) = 1 /\ Trim(Tail(t))[1] \in JsonEvents
        THEN <<EventOf(Trim(Tail(t))[1])>>
        ELSE <<>>

RECURSIVE Scan(_, _, _)
Scan(text, line, ended) ==
    IF text = <<>> THEN (IF ended THEN LineEvent(line) ELSE <<>>)
    ELSE IF Head(text) = "nl"
    THEN LineEvent(line) \o Scan(Tail(text), <<>>, ended)
    ELSE Scan(Tail(text), Append(line, Head(text)), ended)

ReceivedEvents(text, ended) == Scan(text, <<>>, ended)

IsThinking(e) == e.type \notin {"complete", "error", "node_complete"}

ThinkingOnly(evs) == SelectSeq(evs, IsThinking)

IsPrefix(a, b) == Len(a) <= Len(b) /\ SubSeq(b, 1, Len(a)) = a

Drop(a, n) == SubSeq(a, n + 1, Len(a))

(***************************************************************************)
(* useStreamingAnalysis (hooks/useStreamingAnalysis.ts).                   *)
(***************************************************************************)
\* controller.abort() of the stream cancelRef.current refers to.
Abort(st, s) ==
    IF s = 0 THEN st
    ELSE [st EXCEPT ![s].aborted = TRUE,
                    ![s].cancelAt = IF @ = -1 THEN Len(st[s].calls) ELSE @]

ResetState ==
    [isLoading |-> FALSE, thinkingEvents |-> <<>>, result |-> None,
     error |-> None, cancelRef |-> 0]

reset ==
    /\ nStreams > 0
    /\ streams' = Abort(streams, hook.cancelRef)
    /\ hook' = ResetState
    /\ currentRun' = 0
    /\ arrived' = <<>>
    /\ UNCHANGED <<uiVars, pipeVars, histVars, nStreams, linesWritten>>

cancel ==
    /\ nStreams > 0
    /\ streams' = Abort(streams, hook.cancelRef)
    /\ hook' = [hook EXCEPT !.cancelRef = 0, !.isLoading = FALSE]
    /\ UNCHANGED <<uiVars, pipeVars, histVars, nStreams, linesWritten, currentRun,
                   arrived>>

\* submitImage: reset(), setIsLoading(true), createAnalysisStream, which
\* runs fetchStream up to its first await.
submitImageCall ==
    /\ nStreams < MaxStreams
    /\ LET id == nStreams + 1
       IN  /\ \E hasUser \in BOOLEAN :
                 streams' =
                     [Abort(streams, hook.cancelRef) EXCEPT
                         ![id] = [NoStream EXCEPT
                                     !.pc = IF hasUser THEN "token"
                                            ELSE "fetch"]]
           /\ hook' = [ResetState EXCEPT !.isLoading = TRUE, !.cancelRef = id]
           /\ currentRun' = id
           /\ nStreams' = id
    /\ arrived' = <<>>
    /\ UNCHANGED linesWritten

\* The page submits an image.
submitImage == submitImageCall /\ UNCHANGED <<uiVars, pipeVars, histVars>>

(***************************************************************************)
(* createAnalysisStream / fetchStream (lib/streaming.ts).                  *)
(***************************************************************************)
\* fetchStream makes the callbacks cbs and moves to pc; text is what the
\* reader has delivered so far.
StreamStep(s, pc, buffer, text, ended, cbs) ==
    /\ streams' = [streams EXCEPT ![s].pc = pc,
                                  ![s].buffer = buffer,
                                  ![s].received = text,
                                  ![s].ended = ended,
                                  ![s].calls = @ \o cbs]
    /\ hook' = ApplyCallbacks(hook, cbs)
    /\ arrived' =
           arrived \o
           ThinkingOnly(Drop(ReceivedEvents(text, ended),
                             Len(ReceivedEvents(streams[s].received,
                                                streams[s].ended))))
    /\ UNCHANGED <<uiVars, pipeVars, histVars, nStreams, linesWritten, currentRun>>

\* `await auth.currentUser.getIdToken()` settles (a rejection is caught);
\* fetch is called next.
TokenSettled(s) ==
    /\ streams[s].pc = "token"
    /\ StreamStep(s, "fetch", <<>>, <<>>, FALSE, <<>>)

\* `await fetch(...)` settles.
FetchSettled(s) ==
    /\ streams[s].pc = "fetch"
    /\ IF streams[s].aborted
       THEN StreamStep(s, "done", <<>>, <<>>, FALSE, CatchBlock("AbortError"))
       ELSE \/ StreamStep(s, "read", <<>>, <<>>, FALSE, <<>>)
            \/ StreamStep(s, "errbody", <<>>, <<>>, FALSE, <<>>)
            \/ StreamStep(s, "done", <<>>, <<>>, FALSE, CatchBlock("Error"))
            \/ StreamStep(s, "done", <<>>, <<>>, FALSE,
                          CatchBlock("TypeError"))

\* `await response.json()` of a non-OK response settles; its own failure is
\* caught, then `throw new Error(errorMessage)`.
ErrorBodySettled(s) ==
    /\ streams[s].pc = "errbody"
    /\ StreamStep(s, "done", <<>>, <<>>, FALSE, CatchBlock("Error"))

\* The server writes one more line of the response.
ServerWrite(s) ==
    /\ streams[s].pc = "read"
    /\ ~streams[s].closed
    /\ ~streams[s].aborted
    /\ linesWritten < MaxLines
    /\ \E line \in Lines :
          streams' = [streams EXCEPT ![s].inflight = @ \o line]
    /\ linesWritten' = linesWritten + 1
    /\ UNCHANGED <<uiVars, pipeVars, histVars, hook, nStreams, currentRun, arrived>>

\* The server ends the response.
ServerClose(s) ==
    /\ streams[s].pc = "read"
    /\ ~streams[s].closed
    /\ ~streams[s].aborted
    /\ streams' = [streams EXCEPT ![s].closed = TRUE]
    /\ UNCHANGED <<uiVars, pipeVars, histVars, hook, nStreams, linesWritten,
                   currentRun, arrived>>

\* `await reader.read()` yields a chunk: any non-empty prefix of what is in
\* flight.
ReadChunk(s) ==
    /\ streams[s].pc = "read"
    /\ ~streams[s].aborted
    /\ \E k \in 1..Len(streams[s].inflight) :
          LET chunk == SubSeq(streams[s].inflight, 1, k)
              r == ProcessChunk(streams[s].buffer, chunk)
          IN  /\ streams' =
                     [streams EXCEPT
                         ![s].inflight = Drop(@, k),
                         ![s].buffer = r.buffer,
                         ![s].received = @ \o chunk,
                         ![s].calls = @ \o r.cbs]
              /\ hook' = ApplyCallbacks(hook, r.cbs)
              /\ arrived' =
                     arrived \o
                     ThinkingOnly(
                         Drop(ReceivedEvents(streams[s].received \o chunk,
                                             FALSE),
                              Len(ReceivedEvents(streams[s].received,
                                                 FALSE))))
    /\ UNCHANGED <<uiVars, pipeVars, histVars, nStreams, linesWritten, currentRun>>

\* `await reader.read()` yields done: the remaining buffer is processed.
ReadDone(s) ==
    /\ streams[s].pc = "read"
    /\ ~streams[s].aborted
    /\ streams[s].closed
    /\ streams[s].inflight = <<>>
    /\ StreamStep(s, "done", streams[s].buffer, streams[s].received, TRUE,
                  ProcessRemaining(streams[s].buffer))

\* `await reader.read()` rejects: with an AbortError after abort(),
\* otherwise with a network error.
ReadFailed(s) ==
    /\ streams[s].pc = "read"
    /\ StreamStep(s, "done", streams[s].buffer, streams[s].received, FALSE,
                  CatchBlock(IF streams[s].aborted THEN "AbortError"
                             ELSE "TypeError"))

NextStream ==
    \/ submitImage
    \/ reset
    \/ cancel
    \/ \E s \in StreamIds :
          \/ TokenSettled(s)
          \/ FetchSettled(s)
          \/ ErrorBodySettled(s)
          \/ ServerWrite(s)
          \/ ServerClose(s)
          \/ ReadChunk(s)
          \/ ReadDone(s)
          \/ ReadFailed(s)

SpecStream == Init /\ [][NextStream]_vars

\* The steps fetchStream takes by itself: a pending await settles.  What
\* the server writes and what the user does is left free.
StreamProgress ==
    \E s \in StreamIds :
        \/ TokenSettled(s)
        \/ FetchSettled(s)
        \/ ErrorBodySettled(s)
        \/ ReadChunk(s)
        \/ ReadDone(s)

FairStream == SpecStream /\ WF_vars(StreamProgress)

(***************************************************************************)
(* One response whose lines include lines that carry no event.             *)
(***************************************************************************)
\* Lines without the `data: ` prefix, with an empty payload, with the
\* [DONE] sentinel, with a payload that is not JSON, blank lines, and
\* events, one of them with blanks around it.
WireLines ==
    {<<"X", "nl">>, <<"d", "nl">>, <<"d", "D", "nl">>, <<"d", "X", "nl">>,
     <<"sp", "nl">>, <<"d", "D">>,
     <<"d", "T1", "nl">>, <<"sp", "d", "T2", "sp", "nl">>,
     <<"d", "N", "nl">>, <<"d", "C", "nl">>, <<"d", "E", "nl">>}

\* The server writes one more line of the response.
ServerWriteAny(s) ==
    /\ streams[s].pc = "read"
    /\ ~streams[s].closed
    /\ ~streams[s].aborted
    /\ linesWritten < MaxLines
    /\ \E line \in WireLines :
          streams' = [streams EXCEPT ![s].inflight = @ \o line]
    /\ linesWritten' = linesWritten + 1
    /\ UNCHANGED <<uiVars, pipeVars, histVars, hook, nStreams, currentRun,
                   arrived>>

NextLines ==
    \/ submitImage
    \/ \E s \in StreamIds :
          \/ TokenSettled(s)
          \/ FetchSettled(s)
          \/ ErrorBodySettled(s)
          \/ ServerWriteAny(s)
          \/ ServerClose(s)
          \/ ReadChunk(s)
          \/ ReadDone(s)
          \/ ReadFailed(s)

SpecLines == Init /\ [][NextLines]_vars

(***************************************************************************)
(* Stored records of any shape, opened in the history page.                *)
(***************************************************************************)
InitRecon ==
    /\ InitPipeline
    /\ InitStream
    /\ InitUi
    /\ store \in {Some(d) : d \in AppraisalDocument}
    /\ selectedAppraisal = None
    /\ display = None

NextRecon == HandleSelect \/ HandleBack

SpecRecon == InitRecon /\ [][NextRecon]_vars


(***************************************************************************)
(* ImagePicker (components/features/ImagePicker/ImagePicker.tsx) on the    *)
(* appraisal page.                                                         *)
(***************************************************************************)
\* Variant of TooLarge without a size limit.
TooLarge_off(file) == FALSE

\* file.size > MAX_SIZE
TooLarge(file) == file.size > MAX_SIZE

\* The page renders the ImagePicker only when `!result && !isLoading`.
PickerShown == hook.result = None /\ ~hook.isLoading

\* processFile(file), from handleDrop or handleFileChange: up to
\* reader.readAsDataURL(file).
processFile ==
    /\ PickerShown
    /\ processed < MaxStreams
    /\ \E file \in Files :
          /\ lastFile' = Some(file)
          /\ IF file.type \notin VALID_TYPES
             THEN /\ picker' = [picker EXCEPT !.error = Some("type")]
                  /\ UNCHANGED readers
             ELSE IF TooLarge(file)
             THEN /\ picker' = [picker EXCEPT !.error = Some("size")]
                  /\ UNCHANGED readers
             ELSE /\ picker' = [picker EXCEPT !.error = None]
                  /\ readers' = readers \cup {[id |-> processed + 1,
                                               file |-> file]}
    /\ processed' = processed + 1
    /\ UNCHANGED <<selected, pagingVars, auxVars, pipeVars, histVars, streamVars>>

\* reader.onload: setPreview(base64); onImageSelect(base64), which is the
\* page's handleImageSelect and calls submitImage.
ReaderLoaded ==
    \E r \in readers :
        /\ readers' = readers \ {r}
        /\ picker' = [picker EXCEPT !.preview = Some(r.file)]
        /\ selected' = Append(selected, r.file)
        /\ submitImageCall
        /\ UNCHANGED <<lastFile, processed, pagingVars, auxVars, pipeVars, histVars>>

\* reader.onerror
ReaderFailed ==
    \E r \in readers :
        /\ readers' = readers \ {r}
        /\ picker' = [picker EXCEPT !.error = Some("read")]
        /\ UNCHANGED <<selected, lastFile, processed, pagingVars, auxVars, pipeVars,
                       histVars, streamVars>>

\* handleClear
handleClear ==
    /\ picker.preview # None
    /\ picker' = [preview |-> None, error |-> None]
    /\ UNCHANGED <<readers, selected, lastFile, processed, pagingVars,
                   auxVars, pipeVars, histVars, streamVars>>

NextPicker ==
    \/ processFile
    \/ ReaderLoaded
    \/ ReaderFailed
    \/ handleClear
    \/ reset

SpecPicker == Init /\ [][NextPicker]_vars


(***************************************************************************)
(* useAppraisalHistory (hooks/useAppraisalHistory.ts) over the history     *)
(* query of the persistence store.                                         *)
(***************************************************************************)
Min(a, b) == IF a <= b THEN a ELSE b

\* The user's records in server order.
Records == [i \in 1..serverTotal |-> i]

\* listByOwner(ownerId, limit, offset) -> (records[], total)
listByOwner(l, off) ==
    [appraisals |-> IF off >= serverTotal THEN <<>>
                    ELSE SubSeq(Records, off + 1, Min(off + l, serverTotal)),
     total |-> serverTotal]

\* Variant of OnSuccess that leaves the offset where it was.
OnSuccess_nooffset(st, req, data) ==
    IF req.reset
    THEN [st EXCEPT !.appraisals = data.appraisals, !.offset = limit,
                    !.total = data.total, !.loading = FALSE]
    ELSE [st EXCEPT !.appraisals = @ \o data.appraisals,
                    !.total = data.total, !.loading = FALSE]

\* fetchHistory after the await: the try block and finally.
OnSuccess(st, req, data) ==
    IF req.reset
    THEN [st EXCEPT !.appraisals = data.appraisals, !.offset = limit,
                    !.total = data.total, !.loading = FALSE]
    ELSE [st EXCEPT !.appraisals = @ \o data.appraisals,
                    !.offset = @ + limit,
                    !.total = data.total, !.loading = FALSE]

\* Variant of OnFailure that drops the loaded list.
OnFailure_clear(st) ==
    [st EXCEPT !.appraisals = <<>>, !.total = 0, !.error = Some("Error"),
               !.loading = FALSE]

\* fetchHistory after the await rejected: the catch block and finally.
OnFailure(st) ==
    [st EXCEPT !.error = Some("Error"), !.loading = FALSE]

\* fetchHistory(isReset) of the render `closure`, up to the await; st is the
\* state its set-calls apply to.
FetchHistory(st, closure, isReset) ==
    IF closure.user = None
    THEN /\ historyHook' = [st EXCEPT !.appraisals = <<>>, !.total = 0,
                                      !.loading = FALSE]
         /\ UNCHANGED fetches
    ELSE /\ historyHook' = [st EXCEPT !.loading = TRUE, !.error = None]
         /\ fetches' = fetches \cup
                {[id |-> nCalls + 1, reset |-> isReset,
                  offset |-> IF isReset THEN 0 ELSE closure.state.offset]}

\* onAuthStateChanged fires with another user; the component renders and
\* the effect on [user, authLoading] runs: setOffset(0); fetchHistory(true).
AuthStateChanged ==
    /\ nCalls < MaxCalls
    /\ \E u \in {None, Some("u")} :
          /\ [user |-> u, loading |-> FALSE] # auth
          /\ auth' = [user |-> u, loading |-> FALSE]
          /\ LET st == [historyHook EXCEPT !.offset = 0]
                 closure == [state |-> historyHook, user |-> u]
             IN  /\ FetchHistory(st, closure, TRUE)
                 /\ rendered' = closure
          /\ sequential' = (u # None /\ fetches = {})
    /\ nCalls' = nCalls + 1
    /\ loads' = 0
    /\ initialDone' = FALSE
    /\ UNCHANGED <<serverTotal, limit, pickerVars, auxVars, pipeVars, histVars,
                   streamVars>>

\* The component renders with the current state.
Render ==
    /\ rendered # [state |-> historyHook, user |-> auth.user]
    /\ rendered' = [state |-> historyHook, user |-> auth.user]
    /\ UNCHANGED <<historyHook, auth, fetches, nCalls, serverTotal, limit,
                   loads, initialDone, sequential, pickerVars, auxVars, pipeVars,
                   histVars, streamVars>>

\* refresh(): setOffset(0); await fetchHistory(true)
refresh ==
    /\ ~auth.loading
    /\ nCalls < MaxCalls
    /\ FetchHistory([historyHook EXCEPT !.offset = 0], rendered, TRUE)
    /\ nCalls' = nCalls + 1
    /\ sequential' = FALSE
    /\ UNCHANGED <<rendered, auth, serverTotal, limit, loads, initialDone,
                   pickerVars, auxVars, pipeVars, histVars, streamVars>>

\* loadMore(): if (loading || appraisals.length >= total) return;
\* await fetchHistory(false)
loadMore ==
    /\ ~auth.loading
    /\ nCalls < MaxCalls
    /\ nCalls' = nCalls + 1
    /\ sequential' =
           (/\ sequential
            /\ fetches = {}
            /\ rendered = [state |-> historyHook, user |-> auth.user])
    /\ IF \/ rendered.state.loading
          \/ Len(rendered.state.appraisals) >= rendered.state.total
       THEN /\ loads' = loads + 1
            /\ UNCHANGED <<historyHook, fetches>>
       ELSE /\ FetchHistory(historyHook, rendered, FALSE)
            /\ UNCHANGED loads
    /\ UNCHANGED <<rendered, auth, serverTotal, limit, initialDone,
                   pickerVars, auxVars, pipeVars, histVars, streamVars>>

\* getAppraisalHistory resolves with the page the store returns.
FetchSuccess ==
    \E req \in fetches :
        /\ fetches' = fetches \ {req}
        /\ historyHook' =
               OnSuccess(historyHook, req, listByOwner(limit, req.offset))
        /\ IF req.reset
           THEN initialDone' = TRUE /\ UNCHANGED loads
           ELSE loads' = loads + 1 /\ UNCHANGED initialDone
        /\ UNCHANGED <<rendered, auth, nCalls, serverTotal, limit,
                       sequential, pickerVars, auxVars, pipeVars, histVars,
                       streamVars>>

\* getAppraisalHistory rejects: the catch block and finally.
FetchFailure ==
    \E req \in fetches :
        /\ fetches' = fetches \ {req}
        /\ historyHook' = OnFailure(historyHook)
        /\ sequential' = (sequential /\ ~req.reset)
        /\ UNCHANGED <<rendered, auth, nCalls, serverTotal, limit, loads,
                       initialDone, pickerVars, auxVars, pipeVars, histVars,
                       streamVars>>

\* hasMore: appraisals.length < total
hasMore == Len(historyHook.appraisals) < historyHook.total

InitPagingAny ==
    /\ InitPipeline
    /\ InitHistory
    /\ InitStream
    /\ InitPicker
    /\ InitAux
    /\ \E T \in 0..MaxRecords : \E l \in 1..MaxLimit : InitPaging(T, l)

NextPaging ==
    \/ AuthStateChanged
    \/ Render
    \/ refresh
    \/ loadMore
    \/ FetchSuccess
    \/ FetchFailure

SpecPaging == InitPagingAny /\ [][NextPaging]_vars

(***************************************************************************)
(* apiRequest (lib/api.ts).                                                *)
(***************************************************************************)
\* HTTP statuses a response can have.
Statuses == {200, 401, 500}

\* Variant of ShouldRefresh that does not look at requireAuth.
ShouldRefresh_any(status, requireAuth) == status = 401

\* response.status === 401 && requireAuth
ShouldRefresh(status, requireAuth) == status = 401 /\ requireAuth

\* fetch(url, {method, headers, body}) with the headers as they are now.
Send(req) ==
    [req EXCEPT !.sent = Append(@, [authorization |-> req.authorization,
                                    body |-> req.body]),
                !.pc = "fetch"]

\* apiRequest(endpoint, options), up to its first await.
ApiCall ==
    /\ api.pc \in {"idle", "done"}
    /\ apiCalls < MaxApiCalls
    /\ apiCalls' = apiCalls + 1
    /\ \E requireAuth \in BOOLEAN, body \in {None, Some("json")} :
          api' = IF requireAuth
                 THEN [NoRequest EXCEPT !.requireAuth = TRUE, !.body = body,
                                        !.pc = "token"]
                 ELSE Send([NoRequest EXCEPT !.body = body])
    /\ UNCHANGED <<autoVars, pickerVars, pagingVars, pipeVars, histVars,
                   streamVars>>

\* `await getAuthToken()` settles: a token, or null without a user or when
\* getIdToken fails; the first request is sent.
ApiTokenSettled ==
    /\ api.pc = "token"
    /\ \E token \in {None, Some("token")} :
          api' = Send([api EXCEPT !.authorization = token])
    /\ UNCHANGED <<apiCalls, autoVars, pickerVars, pagingVars, pipeVars,
                   histVars, streamVars>>

\* `await fetch(...)` settles: with a response, or it rejects.
ApiFetchSettled ==
    /\ api.pc = "fetch"
    /\ \/ api' = [api EXCEPT !.pc = "done", !.outcome = "rejected"]
       \/ \E status \in Statuses :
             api' = [api EXCEPT
                        !.status = status,
                        !.first = IF Len(api.sent) = 1 THEN status ELSE @,
                        !.pc = IF Len(api.sent) = 1
                                  /\ ShouldRefresh(status, api.requireAuth)
                               THEN "refresh" ELSE "body"]
    /\ UNCHANGED <<apiCalls, autoVars, pickerVars, pagingVars, pipeVars,
                   histVars, streamVars>>

\* `await refreshAuthToken()` settles; with a token the request is sent
\* again.
ApiRefreshSettled ==
    /\ api.pc = "refresh"
    /\ \E newToken \in {None, Some("refreshed")} :
          api' = IF newToken # None
                 THEN Send([api EXCEPT !.authorization = newToken,
                                       !.refreshed = newToken])
                 ELSE [api EXCEPT !.pc = "body"]
    /\ UNCHANGED <<apiCalls, autoVars, pickerVars, pagingVars, pipeVars,
                   histVars, streamVars>>

\* `if (!response.ok) ... throw new ApiError`, `return response.json()`
ApiBodySettled ==
    /\ api.pc = "body"
    /\ \/ /\ api.status # 200
          /\ api' = [api EXCEPT !.pc = "done", !.outcome = "ApiError"]
       \/ /\ api.status = 200
          /\ \E o \in {"returned", "rejected"} :
                api' = [api EXCEPT !.pc = "done", !.outcome = o]
    /\ UNCHANGED <<apiCalls, autoVars, pickerVars, pagingVars, pipeVars,
                   histVars, streamVars>>

NextApi ==
    \/ ApiCall
    \/ ApiTokenSettled
    \/ ApiFetchSettled
    \/ ApiRefreshSettled
    \/ ApiBodySettled

SpecApi == Init /\ [][NextApi]_vars

(***************************************************************************)
(* useAuth and useAutoAuth (hooks/useAuth.ts, hooks/useAutoAuth.ts) on the *)
(* history page.                                                           *)
(***************************************************************************)
\* useAuth: the onAuthStateChanged listener is called with Firebase's
\* current user (without configuration, loading just ends); the page
\* renders and useAppraisalHistory's effect on [user, authLoading] runs.
OnAuthStateChanged ==
    /\ auth.loading \/ auth.user # fbUser
    /\ auth' = [user |-> fbUser, loading |-> FALSE]
    /\ LET st == [historyHook EXCEPT !.offset = 0]
           closure == [state |-> historyHook, user |-> fbUser]
       IN  /\ FetchHistory(st, closure, TRUE)
           /\ rendered' = closure
    /\ sequential' = (fbUser # None /\ fetches = {})
    /\ nCalls' = nCalls + 1
    /\ loads' = 0
    /\ initialDone' = FALSE
    /\ UNCHANGED <<serverTotal, limit, pickerVars, auxVars, pipeVars,
                   histVars, streamVars>>

\* Variant of Skip that does not look at signingIn.
Skip_nosigning == auth.loading \/ auth.user # None \/ ~configured

\* if (loading || user || !isConfigured || signingIn) return;
Skip == auth.loading \/ auth.user # None \/ ~configured \/ signingIn

\* useAutoAuth's effect runs after a render in which one of its
\* dependencies changed: doSignIn() up to `await signInAsAnonymous()`.
AutoEffect ==
    /\ AutoDeps # autoDeps
    /\ autoDeps' = AutoDeps
    /\ IF Skip
       THEN UNCHANGED <<signingIn, autoError, signIns>>
       ELSE /\ signingIn' = TRUE
            /\ autoError' = None
            /\ signIns' = signIns + 1
    /\ UNCHANGED <<configured, fbUser, apiVars, pickerVars, pagingVars,
                   pipeVars, histVars, streamVars>>

\* Firebase has signed the anonymous user in: auth.currentUser is set.
FirebaseSignedIn ==
    /\ signIns > 0
    /\ fbUser = None
    /\ fbUser' = Some("u")
    /\ UNCHANGED <<configured, signingIn, autoError, signIns, autoDeps,
                   apiVars, pickerVars, pagingVars, pipeVars, histVars,
                   streamVars>>

\* `await signInAsAnonymous()` resolves: finally.
SignInResolved ==
    /\ signIns > 0
    /\ fbUser # None
    /\ signIns' = signIns - 1
    /\ signingIn' = FALSE
    /\ UNCHANGED <<configured, fbUser, autoError, autoDeps, apiVars,
                   pickerVars, pagingVars, pipeVars, histVars, streamVars>>

\* `await signInAsAnonymous()` rejects: catch, finally.
SignInRejected ==
    /\ signIns > 0
    /\ signIns' = signIns - 1
    /\ autoError' = Some("Error")
    /\ signingIn' = FALSE
    /\ UNCHANGED <<configured, fbUser, autoDeps, apiVars, pickerVars,
                   pagingVars, pipeVars, histVars, streamVars>>

\* isReady: !loading && !signingIn
isReady == ~auth.loading /\ ~signingIn

\* Firebase is configured or not; with configuration a user of an earlier
\* visit can be present.
InitAutoAny ==
    /\ InitPipeline
    /\ InitHistory
    /\ InitStream
    /\ InitPicker
    /\ InitPaging(MaxRecords, MaxLimit)
    /\ InitApi
    /\ \E c \in BOOLEAN : \E u \in {None, Some("u")} :
          (c \/ u = None) /\ InitAuto(c, u)

NextAuto ==
    \/ OnAuthStateChanged
    \/ AutoEffect
    \/ FirebaseSignedIn
    \/ SignInResolved
    \/ SignInRejected
    \/ Render
    \/ refresh
    \/ loadMore
    \/ FetchSuccess
    \/ FetchFailure

SpecAuto == InitAutoAny /\ [][NextAuto]_vars

\* A pending sign-in settles, the listener is called, the effect runs.
SignInSettles == FirebaseSignedIn \/ SignInResolved \/ SignInRejected

FairAuto ==
    /\ SpecAuto
    /\ WF_vars(OnAuthStateChanged)
    /\ WF_vars(AutoEffect)
    /\ WF_vars(SignInSettles)

(***************************************************************************)
(* Properties.                                                             *)
(***************************************************************************)
Stored == The(store)

Shown == The(display)

Live == The(outcome)

\* C1: round-trip law.  Whenever the record of a finished run is opened in
\* the history page, the reconstructed result has the Classification the
\* live run produced, and the record carries the run's TerminationPoint.
C1_RoundTrip ==
    (display # None /\ outcome # None) =>
        /\ ~Shown.thrown
        /\ Shown.classification = Live.classification
        /\ The(selectedAppraisal).termination_point = Live.termination_point

\* C2: a stored record that did not terminate as prohibited, unidentifiable
\* or unique_item and has no price result with status success is
\* reconstructed with Classification unknown.
C2_GapIsUnknown ==
    display # None =>
        LET doc == The(selectedAppraisal)
        IN  (/\ doc.termination_point \notin
                    {"vision_prohibited", "vision_unknown", "search_unique"}
             /\ Chain(doc.price, "status") # Some("complete"))
            => (~Shown.thrown /\ Shown.classification = "unknown")

\* C3: toAnalyzeResponse returns a display result and never raises, for
\* every stored record, whichever of vision, search and price are missing.
C3_ReconstructionTotal ==
    display # None =>
        (~Shown.thrown /\ Shown.classification \in Classification)

C3_Witness ==
    /\ display # None
    /\ The(selectedAppraisal).vision = None
    /\ The(selectedAppraisal).search = None
    /\ The(selectedAppraisal).price = None
    /\ ~Shown.thrown

CallArgs(log, cb) ==
    LET Is(c) == c.cb = cb
        sel == SelectSeq(log, Is)
    IN  [i \in DOMAIN sel |-> sel[i].arg]

C4_InOrder ==
    /\ \A s \in StreamIds :
          CallArgs(streams[s].calls, "onThinking") =
              ThinkingOnly(ReceivedEvents(streams[s].received,
                                          streams[s].ended))
    /\ hook.thinkingEvents = arrived

C4_AppendOnly ==
    \/ reset
    \/ submitImage
    \/ IsPrefix(hook.thinkingEvents, hook.thinkingEvents')

\* C4: consumer-side ordering.  Each stream's onThinking calls are exactly
\* the events it received, in arrival order, without complete, error and
\* node_complete; the hook's thinkingEvents is that sequence, and between
\* resets it only grows at its end.
C4_ConsumerOrdering == [](C4_InOrder) /\ [][C4_AppendOnly]_vars

C4_Witness ==
    /\ nStreams = 1
    /\ Len(hook.thinkingEvents) = 2
    /\ hook.thinkingEvents[1] # hook.thinkingEvents[2]
    /\ Len(streams[1].calls) = 2
    /\ streams[1].pc = "read"

IsTerminalCall(c) == c.cb \in {"onComplete", "onError"}

\* C5: for every stream that is not cancelled, no callback follows an
\* onComplete or onError, and once fetchStream has returned exactly one of
\* them has been invoked, exactly once.
C5_ExactlyOneTerminal ==
    \A s \in StreamIds :
        (streams[s].pc # "none" /\ ~streams[s].aborted) =>
            LET log == streams[s].calls
            IN  /\ \A i \in 1..(Len(log) - 1) : ~IsTerminalCall(log[i])
                /\ streams[s].pc = "done" =>
                       (log # <<>> /\ IsTerminalCall(log[Len(log)]))

\* C6: once the cancel function of a stream has been called, no callback is
\* invoked for that stream.
C6_CancelIsSilent ==
    \A s \in StreamIds :
        streams[s].cancelAt # -1 => Len(streams[s].calls) = streams[s].cancelAt

StageOrderPrefix(rs) ==
    /\ Len(rs) <= Len(NodeType)
    /\ \A i \in DOMAIN rs : rs[i].stage = NodeType[i]

C7_Shape ==
    /\ StageOrderPrefix(results)
    /\ orch_pc \in {"finish", "closed"} => Len(results) \in 1..3
    /\ outcome # None => Live.results = results

\* C7: the StageResult sequence is a prefix of vision, search, price with
\* no stage skipped, repeated or reordered; it has 1, 2 or 3 entries once
\* the run has reached its terminal decision; and it only grows at its end.
C7_StageSequence ==
    [](C7_Shape) /\ [][IsPrefix(results, results')]_vars

C7_Witness ==
    /\ orch_pc = "closed"
    /\ Len(results) = 3
    /\ Live.results = results

\* C8: early exit.  Only the last StageResult can carry `terminate`; after
\* a terminate result no stage call is made or in flight; at most three
\* external stage calls are made.
C8_EarlyExit ==
    /\ \A i \in 1..(Len(results) - 1) : results[i].decision = "continue"
    /\ calls <= 3
    /\ calls \in Len(results)..(Len(results) + (IF pending = None
                                                  /\ orch_pc \notin
                                                         {"expired", "failed",
                                                          "cancelled"}
                                                THEN 0 ELSE 1))
    /\ (results # <<>> /\ results[Len(results)].decision = "terminate") =>
           (pending = None /\ orch_pc \in {"finish", "closed", "cancelled"})

C8_Witness ==
    /\ orch_pc = "closed"
    /\ Len(results) = 2
    /\ results[2].decision = "terminate"
    /\ calls = 2

VisionProhibited ==
    results # <<>> /\ results[1].terminationReason = Some("prohibited")

\* C9: if vision terminates with reason prohibited, the run has exactly one
\* StageResult, its record has no search and no price part, and the
\* Classification is prohibited both live and reconstructed.
C9_Prohibited ==
    VisionProhibited =>
        /\ Len(results) = 1
        /\ outcome # None => Live.classification = "prohibited"
        /\ store # None => (Stored.search = None /\ Stored.price = None)
        /\ display # None =>
               (~Shown.thrown /\ Shown.classification = "prohibited")

C9_Witness ==
    /\ VisionProhibited
    /\ outcome # None
    /\ display # None
    /\ Shown.classification = "prohibited"

SearchUnique ==
    /\ Len(results) >= 2
    /\ results[1].decision = "continue"
    /\ results[2].terminationReason = Some("unique_item")

\* C10: if vision continues and search terminates with reason unique_item,
\* the run has exactly two StageResults, its record has no price part, and
\* the Classification is unique_item both live and reconstructed.
C10_UniqueItem ==
    SearchUnique =>
        /\ Len(results) = 2
        /\ outcome # None => Live.classification = "unique_item"
        /\ store # None => Stored.price = None
        /\ display # None =>
               (~Shown.thrown /\ Shown.classification = "unique_item")

C10_Witness ==
    /\ SearchUnique
    /\ outcome # None
    /\ display # None
    /\ Shown.classification = "unique_item"

BothContinue ==
    /\ Len(results) >= 2
    /\ results[1].decision = "continue"
    /\ results[2].decision = "continue"

PriceRan == \E i \in DOMAIN results : results[i].stage = "price"

RunCut == orch_pc \in {"expired", "failed", "cancelled"} \/ disconnected

C11_Shape ==
    /\ PriceRan =>
           /\ Len(results) = 3
           /\ BothContinue
           /\ results[3].decision = "terminate"
           /\ results[3].terminationReason \in
                  {Some("priced"), Some("price_failed")}
    /\ (BothContinue /\ ~PriceRan /\ ~RunCut) =>
           (orch_pc \in {"stage_start", "invoke", "in_flight"}
            /\ NodeType[stageIdx] = "price")
    /\ (BothContinue /\ orch_pc \in {"finish", "closed"}) => PriceRan
    /\ (PriceRan /\ results[3].terminationReason = Some("priced")) =>
           /\ outcome # None => Live.classification = "mass_product"
           /\ display # None =>
                  (/\ ~Shown.thrown
                   /\ Shown.classification = "mass_product"
                   /\ Shown.price # None)

\* C11: the price stage runs only after vision and search both continued;
\* once both have continued it is the stage that runs next, and unless the
\* run is cut short by a disconnect or the timeout it does run; it always
\* returns terminate with reason priced or price_failed; when it succeeds
\* the Classification is mass_product, live and reconstructed.
C11_PriceStage ==
    [](C11_Shape) /\ (BothContinue ~> (PriceRan \/ RunCut))

C11_Witness ==
    /\ orch_pc = "closed"
    /\ PriceRan
    /\ results[3].terminationReason = Some("priced")
    /\ display # None
    /\ Shown.classification = "mass_product"

IsTerminalEvent(e) == e.kind \in {"complete", "error"}

Accepted == orch_pc \notin {"idle", "rejected"}

TerminalEmitted == events # <<>> /\ IsTerminalEvent(events[Len(events)])

C12_Shape ==
    /\ \A i \in 1..(Len(events) - 1) : ~IsTerminalEvent(events[i])
    /\ TerminalEmitted <=> orch_pc \in {"closed", "failed"}
    /\ (Accepted /\ ~chanOpen /\ orch_pc # "cancelled") => TerminalEmitted
    /\ orch_pc = "closed" => events[Len(events)].kind = "complete"
    /\ ~Accepted => events = <<>>

\* C12: the event stream of an accepted request carries at most one
\* terminal event and nothing after it; the orchestrator closes the channel
\* only with a terminal event (complete after every terminal decision,
\* error after the timeout) unless the consumer has disconnected; and every
\* accepted request gets there.
C12_OneTerminalEvent ==
    [](C12_Shape) /\ (Accepted ~> (TerminalEmitted \/ disconnected))

C12_Witness ==
    /\ orch_pc = "closed"
    /\ Live.classification = "prohibited"
    /\ events[Len(events)].kind = "complete"
    /\ delivered = events

IsStageEvent(e) == e.kind \in {"stage_start", "stage_complete"}

StageEvents == SelectSeq(events, IsStageEvent)

IsStart(e) == e.kind = "stage_start"

IsComplete(e) == e.kind = "stage_complete"

\* The stage event that precedes position i of events.
BracketOf(i) ==
    LET before == SelectSeq(SubSeq(events, 1, i - 1), IsStageEvent)
    IN  IF before = <<>> THEN Event("none", "none")
        ELSE before[Len(before)]

\* C13: stage events bracket stage execution.  The stage events are
\* start(vision), complete(vision), start(search), ... in this order; a
\* stage is invoked only after its stage_start; stage_complete is emitted
\* exactly when its StageResult is appended; the next stage_start comes
\* only after the previous decision; progress events lie inside their
\* stage's bracket.
C13_Brackets ==
    /\ \A i \in DOMAIN StageEvents :
          StageEvents[i] =
              IF i % 2 = 1
              THEN Event("stage_start", NodeType[(i + 1) \div 2])
              ELSE Event("stage_complete", NodeType[i \div 2])
    /\ Len(SelectSeq(events, IsComplete)) = Len(results)
    /\ Len(SelectSeq(events, IsStart)) \in calls..(calls + 1)
    /\ Len(SelectSeq(events, IsStart)) <= Len(results) + 1
    /\ Len(SelectSeq(events, IsStart)) = calls + 1 =>
           orch_pc \in {"invoke", "expired", "failed", "cancelled"}
    /\ \A i \in DOMAIN events :
          events[i].kind \in {"progress", "thinking"} =>
              BracketOf(i) = Event("stage_start", events[i].stage)

C13_Witness ==
    /\ orch_pc = "closed"
    /\ Len(results) = 3
    /\ \E i \in DOMAIN events : events[i] = Event("progress", "search")

C14_Shape ==
    /\ Len(chan) <= ChanCap
    /\ IsPrefix(delivered, events)
    /\ ~disconnected => delivered \o chan = events

C15_Cancellation ==
    atDisconnect # None =>
        /\ calls = The(atDisconnect).calls
        /\ results = The(atDisconnect).results
        /\ store = None
        /\ outcome = None
        /\ orch_pc \in InProgress \cup {"cancelled"}
        /\ orch_pc = "cancelled" => (pending = None /\ ~chanOpen)

C15_Witness ==
    /\ orch_pc = "cancelled"
    /\ NodeType[stageIdx] = "price"
    /\ calls = 3
    /\ Len(results) = 2

C16_Shape ==
    /\ orch_pc = "failed" =>
           /\ events[Len(events)] = Event("error", "none")
           /\ ~chanOpen
           /\ pending = None
           /\ store = None
    /\ orch_pc = "expired" => (chanOpen /\ pending = None)

\* C16: when the per-run cap expires before a terminal decision, the run
\* ends with an error event and a closed channel, and an expired run's
\* channel is always closed eventually.
C16_Timeout == [](C16_Shape) /\ ((orch_pc = "expired") ~> ~chanOpen)

C16_Witness ==
    /\ orch_pc = "failed"
    /\ calls = 2
    /\ Len(results) = 1
    /\ delivered = events

\* The claim's valid image: one of the three types and at most 10 MB.
ValidImage(file) ==
    /\ file.type \in {"image/jpeg", "image/png", "image/webp"}
    /\ file.size <= 10 * 1024 * 1024

C17_Shape ==
    /\ \A i \in DOMAIN selected : ValidImage(selected[i])
    /\ \A r \in readers : ValidImage(r.file)
    /\ nStreams = Len(selected)

\* The step is a processFile call on an invalid file.
RejectStep == processed' # processed /\ ~ValidImage(The(lastFile'))

\* C17: onImageSelect is called, and a stream created, only for files of a
\* valid type and of at most 10 MB; a processFile call on any other file
\* sets the error message, starts no read and creates no stream.
C17_Rejected ==
    /\ [](C17_Shape)
    /\ [][RejectStep =>
            /\ picker'.error # None
            /\ readers' = readers
            /\ selected' = selected
            /\ streams' = streams
            /\ nStreams' = nStreams]_vars

C17_Witness ==
    /\ processed = 2
    /\ lastFile = Some([type |-> "image/png", size |-> MAX_SIZE + 1])
    /\ picker.error = Some("size")
    /\ selected = <<[type |-> "image/jpeg", size |-> MAX_SIZE]>>
    /\ nStreams = 1

\* C19: for a signed-in user and a store of serverTotal records, after the
\* initial fetch has delivered and loads loadMore calls have completed, one
\* at a time and each made from the current render, appraisals is the
\* first min(serverTotal, (loads + 1) * limit) records in server order,
\* total is serverTotal, and hasMore holds exactly when fewer than
\* serverTotal records are loaded.
C19_Pagination ==
    (sequential /\ initialDone) =>
        /\ historyHook.appraisals =
               [i \in 1..Min(serverTotal, (loads + 1) * limit) |-> i]
        /\ historyHook.total = serverTotal
        /\ hasMore <=> Len(historyHook.appraisals) < serverTotal

C19_Witness ==
    /\ sequential
    /\ initialDone
    /\ loads = 1
    /\ limit = 2
    /\ serverTotal = 3
    /\ historyHook.appraisals = <<1, 2, 3>>
    /\ ~hasMore
    /\ fetches = {}

\* The four kinds of line the claim names, on the line as the read loop
\* hands it to parseSSELine (white space around it removed).
Malformed(line) ==
    LET t == Trim(line)
    IN  \/ t = <<>>
        \/ Head(t) # "d"
        \/ Tail(t) = <<>>
        \/ Tail(t) = <<"D">>
        \/ ~(Len(Trim(Tail(t))) = 1 /\ Trim(Tail(t))[1] \in JsonEvents)

WellFormed(line) == ~Malformed(line)

\* The lines of the text that are complete: all of them once the stream
\* has ended, all but the last before.
CompleteLines(text, ended) ==
    LET lines == Split(text)
    IN  IF ended THEN lines ELSE SubSeq(lines, 1, Len(lines) - 1)

RECURSIVE EventCallbacks(_)
EventCallbacks(lines) ==
    IF lines = <<>> THEN <<>>
    ELSE Dispatch(EventOf(Trim(Tail(Trim(Head(lines))))[1]))
         \o EventCallbacks(Tail(lines))

IsEventCall(c) == c.arg.type # "exception"

C20_Shape ==
    \A s \in StreamIds :
        SelectSeq(streams[s].calls, IsEventCall) =
            EventCallbacks(SelectSeq(CompleteLines(streams[s].received,
                                                   streams[s].ended),
                                     WellFormed))

\* C20: the callbacks a stream makes for received lines are those of its
\* well-formed lines, in order: a line without the `data: ` prefix, with an
\* empty payload, with [DONE] or with a payload that is not JSON adds no
\* callback, and reading a chunk never ends the read loop, so the events on
\* later lines are delivered.
C20_Skipped ==
    /\ [](C20_Shape)
    /\ [][\A s \in StreamIds :
            (streams[s].pc = "read" /\ streams'[s].received # streams[s].received
             /\ ~streams'[s].ended)
                => streams'[s].pc = "read"]_vars

C20_Witness ==
    /\ streams[1].received = <<"d", "X", "nl", "d", "C", "nl">>
    /\ Len(streams[1].calls) = 1
    /\ streams[1].calls[1].cb = "onComplete"
    /\ streams[1].pc = "read"

\* The callbacks and the buffer when the text arrives as one chunk.
InOneChunk(text, ended) ==
    LET whole == ProcessChunk(<<>>, text)
    IN  [buffer |-> whole.buffer,
         cbs |-> whole.cbs \o (IF ended THEN ProcessRemaining(whole.buffer)
                               ELSE <<>>)]

\* C21: chunk-boundary independence.  Whatever chunks the text a stream has
\* received arrived in, the callbacks made for it and the buffer kept are
\* those of the same text arriving as a single chunk, also when a chunk
\* ends in the middle of a line and when the last event has no line feed.
C21_ChunkIndependent ==
    \A s \in StreamIds :
        LET one == InOneChunk(streams[s].received, streams[s].ended)
        IN  /\ SelectSeq(streams[s].calls, IsEventCall) = one.cbs
            /\ streams[s].pc = "read" => streams[s].buffer = one.buffer

C21_Witness ==
    /\ streams[1].pc = "read"
    /\ streams[1].received = <<"d", "T1", "nl", "d">>
    /\ streams[1].buffer = <<"d">>
    /\ Len(streams[1].calls) = 1

\* The callbacks of the stream the latest submitImage started; none after
\* reset().
CurrentCalls == IF currentRun = 0 THEN <<>> ELSE streams[currentRun].calls

\* C22: run isolation.  thinkingEvents holds only events of the stream the
\* latest submitImage started, and result and error are only set by that
\* stream; after reset() all three stay empty.
C22_RunIsolation ==
    /\ hook.thinkingEvents = CallArgs(CurrentCalls, "onThinking")
    /\ hook.result # None =>
           \E i \in DOMAIN CurrentCalls :
               /\ CurrentCalls[i].cb = "onComplete"
               /\ Some(CurrentCalls[i].arg.message) = hook.result
    /\ hook.error # None =>
           \E i \in DOMAIN CurrentCalls :
               /\ CurrentCalls[i].cb = "onError"
               /\ Some(CurrentCalls[i].arg.message) = hook.error

\* C23: result and error are never both set, and isLoading is false
\* whenever one of them is set.
C23_ResultOrError ==
    /\ ~(hook.result # None /\ hook.error # None)
    /\ (hook.result # None \/ hook.error # None) => ~hook.isLoading

\* C24: once the stream of the current run is over, however it ended,
\* isLoading eventually becomes false.
C24_LoadingEnds ==
    (currentRun # 0 /\ streams[currentRun].pc = "done") ~> ~hook.isLoading

\* C25: one apiRequest call sends at most two requests; a second one only
\* after a first response with status 401, with requireAuth, and with a
\* token from the forced refresh, which it carries; without requireAuth no
\* request carries an Authorization header and there is no second request.
C25_AtMostOneRetry ==
    /\ Len(api.sent) <= 2
    /\ Len(api.sent) = 2 =>
           /\ api.first = 401
           /\ api.requireAuth
           /\ api.refreshed # None
           /\ api.sent[2].authorization = api.refreshed
           /\ api.sent[2].body = api.sent[1].body
    /\ ~api.requireAuth =>
           /\ Len(api.sent) <= 1
           /\ \A i \in DOMAIN api.sent : api.sent[i].authorization = None

C25_Witness ==
    /\ api.pc = "done"
    /\ api.outcome = "returned"
    /\ api.sent = <<[authorization |-> Some("token"), body |-> None],
                    [authorization |-> Some("refreshed"), body |-> None]>>

C26_Shape ==
    /\ signIns <= 1
    /\ signingIn <=> signIns = 1

\* C26: an automatic sign-in is started only when auth loading has
\* finished, the hook has no user, Firebase is configured and no sign-in is
\* in flight; so at most one is in flight at any time.
C26_AutoSignIn ==
    /\ [](C26_Shape)
    /\ [][signIns' > signIns =>
            /\ ~auth.loading
            /\ auth.user = None
            /\ configured
            /\ signIns = 0
            /\ signIns' = 1]_vars

C26_Witness ==
    /\ signIns = 1
    /\ autoDeps = AutoDeps
    /\ autoError = None
    /\ fbUser = None
    /\ historyHook.loading = FALSE

\* C27: useAutoAuth settles: from some point on isReady is true for good.
C27_Settles == <>[]isReady

\* The server list of the user the hook has now.
UserRecords == IF auth.user = None THEN <<>> ELSE Records

\* C28: under every interleaving of refresh, loadMore, user changes and
\* fetch responses, appraisals is a gap-free prefix of the current user's
\* server list (so no record occurs in it twice).
C28_PrefixOfServerList ==
    /\ Len(historyHook.appraisals) <= Len(UserRecords)
    /\ \A i \in DOMAIN historyHook.appraisals :
          historyHook.appraisals[i] = UserRecords[i]

\* C29: a failed history fetch leaves the loaded appraisals, total and the
\* paging offset as they were, sets error and makes loading false; every
\* step that starts a fetch clears error.
C29_FailureKeepsList ==
    [][/\ FetchFailure =>
            /\ historyHook'.appraisals = historyHook.appraisals
            /\ historyHook'.total = historyHook.total
            /\ historyHook'.offset = historyHook.offset
            /\ historyHook'.error # None
            /\ ~historyHook'.loading
       /\ (fetches' \ fetches # {}) =>
            /\ historyHook'.error = None
            /\ historyHook'.loading]_vars

\* A fetch has failed with part of the list loaded: the list, total and
\* offset of the loaded page are still there next to the error.
C29_Witness ==
    /\ historyHook.error # None
    /\ historyHook.appraisals # <<>>
    /\ historyHook.total = serverTotal
    /\ historyHook.offset = Len(historyHook.appraisals)
    /\ ~historyHook.loading
    /\ fetches = {}

\* C30: the list row and the detail view of a stored record agree: the row
\* is the priced one exactly when toAnalyzeResponse classifies the record as
\* mass_product, the unique-item one exactly for unique_item, the prohibited
\* one exactly for prohibited and the not-appraisable one exactly for
\* unknown.
C30_ListMatchesDetail ==
    (display # None /\ ~Shown.thrown) =>
        ListStatus(The(selectedAppraisal)) = Shown.classification
====
